---- MODULE Spec2Model ----
(***************************************************************************)
(* Model of the revenue forecaster of VectorOS                             *)
(* (src/ai-core/src/services/revenue_forecaster.py), of the two HTTP       *)
(* handlers that call it (src/ai-core/src/main.py, main_simple.py), of the *)
(* Redis cache service (src/ai-core/src/services/cache_service.py) and of  *)
(* the two monitoring workers (src/ai-core/src/workers).                   *)
(*                                                                         *)
(* Numbers.  The code computes in binary floating point; the model         *)
(* computes the same quantities exactly, as integers in fixed units:       *)
(*   value, total_value            mills      (1/1000 of a currency unit)  *)
(*   weighted_value                fine units (1/100000 of a unit)         *)
(*   best/likely/worst/predicted,                                          *)
(*   revenue_goal                  cents      (the code rounds to 2 places)*)
(*   required_pipeline             mills                                   *)
(*   probability                   percent, as stored in the database      *)
(*   adjusted_probability          permille   (the code rounds to 3 places)*)
(*   confidence, pipeline_coverage hundredths (the code rounds to 2 places)*)
(*   similarity_score              hundredths                              *)
(* Python's round() is modelled by RoundHalfEven on the exact quotient:    *)
(* the two agree except where the exact quotient is a tie (x.xx5), which   *)
(* the binary representation of the float decides either way.              *)
(* Time is counted in days from the moment of the call (now = day 0).      *)
(* createdAt is kept as the age of the deal in days.  title, company and   *)
(* updatedAt are opaque pass-through fields and are left out of the        *)
(* records.                                                                *)
(***************************************************************************)
EXTENDS Integers, Sequences, FiniteSets, TLC

\* ------------------------------------------------------------- bounds
\* Longest deal table of a workspace that Init draws.
MaxDeals == 2
\* Number of request slots (concurrent callers).
NumRequests == 2

Requests == 1..NumRequests

\* Longest list of workspaces a monitoring cycle goes through.
MaxWorkspaces == 2
\* Highest value the model lets cycle_count take.
MaxCycles == 2

\* -------------------------------------------------- program constants
DefaultProbability == 50
TopK == 10
CurrentWeight == 7
HistoricalWeight == 3
HighProbability == 800
WorstFactor == 7
BaseConfidence == 50
DefaultGoal == 10000000
MonthsOfHistory == 12
DaysPerMonth == 30
CoverageRatio == 25

\* ------------------------------------------------------ arithmetic
Min(a, b) == IF a < b THEN a ELSE b
Max(a, b) == IF a > b THEN a ELSE b

\* round(n / d) for d > 0, ties to the even neighbour (Python 3's round).
RoundHalfEven(n, d) ==
    LET q == n \div d
        r == n % d
    IN  IF 2 * r < d THEN q
        ELSE IF 2 * r > d THEN q + 1
        ELSE IF q % 2 = 0 THEN q ELSE q + 1

\* sum(...) over a sequence of integers.
SeqSum(s) ==
    LET S[i \in 0..Len(s)] == IF i = 0 THEN 0 ELSE S[i - 1] + s[i]
    IN  S[Len(s)]

\* ----------------------------------------------------- request inputs
\* A timeframe is a string; the model keeps it as its characters so that
\* the parse of forecast_revenue can be modelled.
Digits == <<"0", "1", "2", "3", "4", "5", "6", "7", "8", "9">>
DigitValue(c) == (CHOOSE i \in 1..Len(Digits) : Digits[i] = c) - 1
IsDigit(c) == \E i \in 1..Len(Digits) : Digits[i] = c

Timeframes == { <<"3", "0", "d">>, <<"6", "0", "d">>, <<"9", "0", "d">>, <<"1", "w">> }
Scenarios == {"best", "likely", "worst", "optimistic"}

\* timeframe.replace('d', '')
RemoveD(tf) == SelectSeq(tf, LAMBDA c : c # "d")

\* int(s) succeeds on a non-empty string of decimal digits.
ParsesAsInt(s) == Len(s) > 0 /\ \A i \in 1..Len(s) : IsDigit(s[i])
ParseInt(s) ==
    LET V[i \in 0..Len(s)] == IF i = 0 THEN 0 ELSE 10 * V[i - 1] + DigitValue(s[i])
    IN  V[Len(s)]

\* ------------------------------------------------------- the database
\* Rows of the deal table.  value 0 stands for a NULL or zero value,
\* probability 0 for a NULL or zero probability (the code tests both
\* with `or` / truthiness), closeDate <<>> for NULL, <<d>> for day d,
\* createdAt <<>> for NULL, <<a>> for a row created a days ago.
DealRows ==
    { [value |-> 0,    probability |-> 40,  stage |-> "lead",        closeDate |-> <<10>>, createdAt |-> <<0>>],
      [value |-> 6,    probability |-> 100, stage |-> "lead",        closeDate |-> <<10>>, createdAt |-> <<0>>],
      [value |-> 1000, probability |-> 0,   stage |-> "lead",        closeDate |-> <<10>>, createdAt |-> <<0>>],
      [value |-> 1000, probability |-> 40,  stage |-> "lead",        closeDate |-> <<10>>, createdAt |-> <<0>>],
      [value |-> 2500, probability |-> 100, stage |-> "negotiation", closeDate |-> <<10>>, createdAt |-> <<0>>],
      [value |-> 1000, probability |-> 150, stage |-> "qualified",   closeDate |-> <<45>>, createdAt |-> <<90>>],
      [value |-> 1000, probability |-> 40,  stage |-> "won",         closeDate |-> <<10>>, createdAt |-> <<0>>],
      [value |-> 1000, probability |-> 40,  stage |-> "lead",        closeDate |-> <<>>,   createdAt |-> <<0>>],
      [value |-> 1000, probability |-> -10, stage |-> "lead",        closeDate |-> <<10>>, createdAt |-> <<0>>],
      [value |-> -1000, probability |-> 40, stage |-> "lead",        closeDate |-> <<10>>, createdAt |-> <<0>>],
      [value |-> 1000, probability |-> 40,  stage |-> "proposal",    closeDate |-> <<10>>, createdAt |-> <<>>] }

WithId(row, i) ==
    [id |-> i, value |-> row.value, probability |-> row.probability,
     stage |-> row.stage, closeDate |-> row.closeDate, createdAt |-> row.createdAt]

Tables == UNION { { [i \in 1..n |-> WithId(f[i], i)] : f \in [1..n -> DealRows] } : n \in 0..MaxDeals }

\* --------------------------------------------------- the vector memory
\* What find_similar_deals answers: a list of similar deals, an exception,
\* or None.
Similar(outcome, score) == [outcome |-> outcome, similarity_score |-> score]
Repeat(x, n) == [i \in 1..n |-> x]
ListOf(deals) == [kind |-> "list", deals |-> deals]
SearchRaises == [kind |-> "raise", deals |-> <<>>]
SearchNone == [kind |-> "none", deals |-> <<>>]

SimResponses ==
    { SearchRaises, SearchNone,
      ListOf(<<>>),
      ListOf(<<Similar("won", 90)>>),
      ListOf(<<Similar("lost", 80), Similar("none", 80)>>),
      ListOf(<<Similar("none", 80)>>),
      ListOf(Repeat(Similar("won", 100), 5)) }

\* ------------------------------------------ _get_deals_in_timeframe
\* The rows the findMany query matches: stage not in (won, lost) and
\* closeDate <= end_date (a NULL closeDate matches no comparison).
QueryMatches(row, days) ==
    /\ row.stage \notin {"won", "lost"}
    /\ row.closeDate # <<>>
    /\ row.closeDate[1] <= days

FindManyInTimeframe(table, days) == SelectSeq(table, LAMBDA row : QueryMatches(row, days))

\* One element of the list comprehension: d.value or 0, d.probability or 50.
ConvertRow(d) ==
    [id |-> d.id,
     value |-> d.value,
     stage |-> d.stage,
     probability |-> IF d.probability = 0 THEN DefaultProbability ELSE d.probability]

\* d.createdAt.isoformat() has no guard: on a row whose createdAt is None
\* the element expression raises AttributeError.
ConvertRaises(d) == d.createdAt = <<>>

\* The list comprehension with its filter `if d.value and d.value > 0`;
\* the filter runs before the element expression, and an exception in any
\* element leaves the try block for `except Exception: return []`.
ConvertRows(rows) ==
    LET kept == SelectSeq(rows, LAMBDA d : d.value # 0 /\ d.value > 0)
    IN  IF \E i \in 1..Len(kept) : ConvertRaises(kept[i]) THEN <<>>
        ELSE [i \in 1..Len(kept) |-> ConvertRow(kept[i])]

\* ------------------------------------------------- _adjust_probability
CountOutcome(similar, outcome) ==
    Cardinality({ i \in 1..Len(similar) : similar[i].outcome = outcome })

\* AdjustProbability counting every similar deal that was not won as lost.
AdjustProbabilityUnwonIsLost(deal, similar) ==
    LET won == CountOutcome(similar.deals, "won")
        total == Len(similar.deals)
        adjusted == CurrentWeight * deal.probability * total + HistoricalWeight * 100 * won
    IN  IF similar.kind = "none" \/ similar.deals = <<>> THEN <<deal.probability, 100>>
        ELSE <<Min(Max(adjusted, 0), 1000 * total), 1000 * total>>

\* The adjusted probability as an exact fraction <<numerator, denominator>>.
\* `similar` is the value of similar_deals: [kind |-> "list" | "none", deals].
AdjustProbability(deal, similar) ==
    LET won == CountOutcome(similar.deals, "won")
        lost == CountOutcome(similar.deals, "lost")
        total == won + lost
        adjusted == CurrentWeight * deal.probability * total + HistoricalWeight * 100 * won
    IN  IF similar.kind = "none" \/ similar.deals = <<>> THEN <<deal.probability, 100>>
        ELSE IF total = 0 THEN <<deal.probability, 100>>
        ELSE <<Min(Max(adjusted, 0), 1000 * total), 1000 * total>>

\* -------------------------------------------- _calculate_deal_confidence
StageConfidence(stage) ==
    CASE stage = "lead" -> 0
      [] stage = "qualified" -> 5
      [] stage = "proposal" -> 10
      [] stage = "negotiation" -> 15
      [] stage = "closing" -> 20
      [] OTHER -> 0

SimilarBonus(n) ==
    IF n >= 10 THEN 30 ELSE IF n >= 5 THEN 20 ELSE IF n >= 2 THEN 10 ELSE 0

\* len(similar_deals) raises TypeError when similar_deals is None.
ConfidenceRaises(similar) == similar.kind = "none"

\* CalculateDealConfidence without its final clamp to 0-1.
CalculateDealConfidenceUnclamped(deal, similar) ==
    LET n == Len(similar.deals)
        den == IF n = 0 THEN 1 ELSE 5 * n
        scores == SeqSum([i \in 1..n |-> similar.deals[i].similarity_score])
    IN  <<(BaseConfidence + SimilarBonus(n) + StageConfidence(deal.stage)) * den
            + (IF n = 0 THEN 0 ELSE scores), den>>

\* The confidence of one deal as a fraction <<numerator, denominator>> of
\* hundredths, for a similar_deals that is a list.
CalculateDealConfidence(deal, similar) ==
    LET n == Len(similar.deals)
        den == IF n = 0 THEN 1 ELSE 5 * n
        scores == SeqSum([i \in 1..n |-> similar.deals[i].similarity_score])
        confidence == (BaseConfidence + SimilarBonus(n) + StageConfidence(deal.stage)) * den
                      + (IF n = 0 THEN 0 ELSE scores)
    IN  <<Min(Max(confidence, 0), 100 * den), den>>

\* ------------------------------------------------------ _forecast_deal
\* similar_deals after the inner try: a search that raises leaves [].
SimilarDeals(response) ==
    IF response.kind = "raise" THEN ListOf(<<>>) ELSE response

\* The except branch: the original probability, unrounded.
FallbackForecast(deal) ==
    [deal_id |-> deal.id,
     value |-> deal.value,
     stage |-> deal.stage,
     original_probability |-> deal.probability,
     adjusted_probability |-> 10 * deal.probability,
     weighted_value |-> deal.value * deal.probability,
     similar_deals_analyzed |-> 0,
     confidence |-> 50]

ForecastDeal(deal, response) ==
    LET similar == SimilarDeals(response)
        adjusted == AdjustProbability(deal, similar)
        confidence == CalculateDealConfidence(deal, similar)
    IN  IF ConfidenceRaises(similar) THEN FallbackForecast(deal)
        ELSE [deal_id |-> deal.id,
              value |-> deal.value,
              stage |-> deal.stage,
              original_probability |-> deal.probability,
              adjusted_probability |-> RoundHalfEven(1000 * adjusted[1], adjusted[2]),
              weighted_value |-> 1000 * RoundHalfEven(deal.value * adjusted[1], 10 * adjusted[2]),
              similar_deals_analyzed |-> Len(similar.deals),
              confidence |-> RoundHalfEven(confidence[1], confidence[2])]

\* ------------------------------------------- _calculate_overall_confidence
\* CalculateOverallConfidence answering the base confidence, not 0, when
\* there is nothing to average.
OverallConfidenceBaseWhenEmpty(forecasted) ==
    LET total_value == SeqSum([i \in 1..Len(forecasted) |-> forecasted[i].value])
        weighted == SeqSum([i \in 1..Len(forecasted) |->
                              forecasted[i].confidence * forecasted[i].value])
    IN  IF forecasted = <<>> \/ total_value = 0 THEN <<BaseConfidence, 1>>
        ELSE <<weighted, total_value>>

\* The value-weighted mean of the deals' confidences, as a fraction.
CalculateOverallConfidence(forecasted) ==
    LET total_value == SeqSum([i \in 1..Len(forecasted) |-> forecasted[i].value])
        weighted == SeqSum([i \in 1..Len(forecasted) |->
                              forecasted[i].confidence * forecasted[i].value])
    IN  IF forecasted = <<>> THEN <<0, 1>>
        ELSE IF total_value = 0 THEN <<0, 1>>
        ELSE <<weighted, total_value>>

\* ---------------------------------------------------- _breakdown_by_stage
StageIndex(stages, stage) ==
    IF \E i \in 1..Len(stages) : stages[i].stage = stage
    THEN CHOOSE i \in 1..Len(stages) : stages[i].stage = stage
    ELSE 0

\* BreakdownAdd assigning the deal's value and weighted value to the
\* stage's entry instead of adding them.
BreakdownAddOverwriting(stages, deal) ==
    LET k == StageIndex(stages, deal.stage)
        with == IF k = 0
                THEN Append(stages, [stage |-> deal.stage, deals |-> 0,
                                     total_value |-> 0, weighted_value |-> 0])
                ELSE stages
        j == IF k = 0 THEN Len(with) ELSE k
    IN  [with EXCEPT ![j] = [stage |-> @.stage,
                             deals |-> @.deals + 1,
                             total_value |-> deal.value,
                             weighted_value |-> deal.weighted_value]]

\* One iteration of the loop over forecasted_deals; the dict keeps its
\* keys in insertion order.
BreakdownAdd(stages, deal) ==
    LET k == StageIndex(stages, deal.stage)
        with == IF k = 0
                THEN Append(stages, [stage |-> deal.stage, deals |-> 0,
                                     total_value |-> 0, weighted_value |-> 0])
                ELSE stages
        j == IF k = 0 THEN Len(with) ELSE k
    IN  [with EXCEPT ![j] = [stage |-> @.stage,
                             deals |-> @.deals + 1,
                             total_value |-> @.total_value + deal.value,
                             weighted_value |-> @.weighted_value + deal.weighted_value]]

\* avg_probability = weighted_value / total_value, kept as a fraction of
\* fine units (total_value in mills is 100 fine units a mill).
WithAverage(entry) ==
    [stage |-> entry.stage,
     deals |-> entry.deals,
     total_value |-> entry.total_value,
     weighted_value |-> entry.weighted_value,
     avg_probability |-> IF entry.total_value > 0
                         THEN <<entry.weighted_value, 100 * entry.total_value>>
                         ELSE <<0, 1>>]

BreakdownByStage(forecasted) ==
    LET B[i \in 0..Len(forecasted)] ==
            IF i = 0 THEN <<>> ELSE BreakdownAdd(B[i - 1], forecasted[i])
        stages == B[Len(forecasted)]
    IN  [i \in 1..Len(stages) |-> WithAverage(stages[i])]

\* ------------------------------------------------------ _get_revenue_goal
\* ok: whether the findMany over all deals of the workspace answered.
GetRevenueGoal(table, days, ok) ==
    LET total_value == SeqSum([i \in 1..Len(table) |-> table[i].value])
    IN  IF ~ok THEN DefaultGoal
        ELSE IF table = <<>> THEN DefaultGoal
        ELSE RoundHalfEven(total_value * days, 10 * MonthsOfHistory * DaysPerMonth)

\* ------------------------------------------------------ forecast_revenue
\* predicted_revenue before rounding, in fine units.
PredictedRevenue(forecasted, scenario) ==
    LET total_value == SeqSum([i \in 1..Len(forecasted) |-> forecasted[i].value])
        weighted_value == SeqSum([i \in 1..Len(forecasted) |-> forecasted[i].weighted_value])
        high == SeqSum([i \in 1..Len(forecasted) |->
                          IF forecasted[i].adjusted_probability > HighProbability
                          THEN forecasted[i].weighted_value ELSE 0])
    IN  IF scenario = "best" THEN 100 * total_value
        ELSE IF scenario = "worst" THEN high
        ELSE weighted_value

\* WorstCase taking 0.7 x weighted_value whatever the scenario.
WorstCaseIgnoringScenario(forecasted, scenario) ==
    <<WorstFactor * SeqSum([i \in 1..Len(forecasted) |-> forecasted[i].weighted_value]), 10>>

\* worst_case before rounding, as a fraction of fine units.
WorstCase(forecasted, scenario) ==
    LET weighted_value == SeqSum([i \in 1..Len(forecasted) |-> forecasted[i].weighted_value])
    IN  IF scenario = "worst" THEN <<PredictedRevenue(forecasted, scenario), 1>>
        ELSE <<WorstFactor * weighted_value, 10>>

\* PipelineCoverage answering 1.0, not 0, when there is no goal.
PipelineCoverageFullWhenNoGoal(total_value, revenue_goal) ==
    IF revenue_goal > 0 THEN <<10 * total_value, revenue_goal>> ELSE <<100, 1>>

\* pipeline_coverage before rounding, as a fraction <<dividend, divisor>> of
\* hundredths: total_value / revenue_goal if revenue_goal > 0 else 0.
PipelineCoverage(total_value, revenue_goal) ==
    IF revenue_goal > 0 THEN <<10 * total_value, revenue_goal>> ELSE <<0, 1>>

\* forecasted_deals[:10]
TopDeals(forecasted) == SubSeq(forecasted, 1, Min(TopK, Len(forecasted)))

\* The forecast_result dict, from the forecasted deals and the revenue goal.
BuildResult(forecasted, timeframe, scenario, revenue_goal) ==
    LET total_value == SeqSum([i \in 1..Len(forecasted) |-> forecasted[i].value])
        weighted_value == SeqSum([i \in 1..Len(forecasted) |-> forecasted[i].weighted_value])
        overall == CalculateOverallConfidence(forecasted)
        worst == WorstCase(forecasted, scenario)
    IN  [timeframe |-> timeframe,
         scenario |-> scenario,
         predicted_revenue |-> RoundHalfEven(PredictedRevenue(forecasted, scenario), 1000),
         confidence |-> RoundHalfEven(overall[1], overall[2]),
         best_case |-> RoundHalfEven(total_value, 10),
         likely_case |-> RoundHalfEven(weighted_value, 1000),
         worst_case |-> RoundHalfEven(worst[1], 1000 * worst[2]),
         pipeline_coverage |-> RoundHalfEven(PipelineCoverage(total_value, revenue_goal)[1],
                                             PipelineCoverage(total_value, revenue_goal)[2]),
         revenue_goal |-> revenue_goal,
         required_pipeline |-> CoverageRatio * revenue_goal,
         deals_analyzed |-> Len(forecasted),
         breakdown_by_stage |-> BreakdownByStage(forecasted),
         forecasted_deals |-> TopDeals(forecasted)]

\* ------------------------------------------------ get_revenue_forecaster
\* The collaborators a caller passes: each is given or left None.
ArgSets ==
    { [db_client |-> TRUE,  memory_service |-> TRUE,  outcome_tracker |-> TRUE],
      [db_client |-> TRUE,  memory_service |-> FALSE, outcome_tracker |-> FALSE],
      [db_client |-> FALSE, memory_service |-> FALSE, outcome_tracker |-> FALSE] }

\* RevenueForecaster.__init__: the instance holds its three collaborators.
NewForecaster ==
    [db |-> "db_client", memory |-> "memory_service", tracker |-> "outcome_tracker"]

\* The value of the global after the call; <<>> is None.
GetOrCreate(global, args) ==
    IF global = <<>> /\ args.db_client /\ args.memory_service /\ args.outcome_tracker
    THEN <<NewForecaster>>
    ELSE global

\* ------------------------------------------- a call run on its own
\* The loop of forecast_revenue over the deals, the i-th search answered
\* by sims[i].
ForecastAll(deals, sims) == [i \in 1..Len(deals) |-> ForecastDeal(deals[i], sims[i])]

\* The result of one call that runs alone on `table`: dealsOk and goalOk
\* say whether the two queries answered, sims are the memory's answers.
SoloResult(table, sims, timeframe, scenario, dealsOk, goalOk) ==
    LET days == ParseInt(RemoveD(timeframe))
        rows == IF dealsOk THEN FindManyInTimeframe(table, days) ELSE <<>>
    IN  BuildResult(ForecastAll(ConvertRows(rows), sims), timeframe, scenario,
                    GetRevenueGoal(table, days, goalOk))

\* ------------------------------------------------------- CacheService
\* A Redis key is kept as its sequence of tokens, the colons among them;
\* a token is a sequence of strings.
Lit(string) == <<string>>
Colon == Lit(":")
Star == Lit("*")

CacheDealIds == {"d1", "d2"}
CacheWorkspaceIds == {"w1", "w2"}
CacheValues == {"v1", "v2"}

\* sha256(json.dumps({"args": [], "kwargs": sorted(kwargs.items())}))[:16]:
\* sixteen hexadecimal digits, one token that is determined by the keyword
\* arguments and shows none of them (two argument lists are taken to have
\* different digests).
Digest(kwargs) == <<"sha256">> \o kwargs

\* _generate_key: f"vectoros:{namespace}:{key_hash}"
GenerateKey(namespace, kwargs) ==
    <<Lit("vectoros"), Colon, Lit(namespace), Colon, Digest(kwargs)>>

SimilarDealsKey(deal_id, workspace_id) ==
    GenerateKey("similarity_search", <<"deal_id", deal_id, "workspace_id", workspace_id>>)

AiAnalysisKey(deal_id) == GenerateKey("ai_analysis", <<"deal_id", deal_id>>)

\* f"vectoros:*:{deal_id}:*"
DealPattern(deal_id) ==
    <<Lit("vectoros"), Colon, Star, Colon, Lit(deal_id), Colon, Star>>

\* f"vectoros:*:*:{workspace_id}:*"
WorkspacePattern(workspace_id) ==
    <<Lit("vectoros"), Colon, Star, Colon, Star, Colon, Lit(workspace_id), Colon, Star>>

\* Redis KEYS glob matching: * matches any run of characters, every other
\* token of the pattern matches itself.
RECURSIVE GlobMatch(_, _)
GlobMatch(pattern, key) ==
    IF pattern = <<>> THEN key = <<>>
    ELSE IF Head(pattern) = Star
    THEN \/ GlobMatch(Tail(pattern), key)
         \/ key # <<>> /\ GlobMatch(pattern, Tail(key))
    ELSE /\ key # <<>>
         /\ Head(key) = Head(pattern)
         /\ GlobMatch(Tail(pattern), Tail(key))

\* json.dumps and json.loads of a cached value.
Dumps(value) == <<"json", value>>
Loads(string) == string[2]

\* The keyspace is a set of entries, one at most for a key.
Entry(key, string) == [key |-> key, string |-> string]

\* client.setex(key, ttl, serialized)
StoreSet(store, key, string) == { e \in store : e.key # key } \cup { Entry(key, string) }

\* client.keys(pattern) and client.delete(*keys)
StoreDeletePattern(store, pattern) == { e \in store : ~GlobMatch(pattern, e.key) }

\* CacheService.get: None (<<>>) when the cache is disabled or the key is
\* not there, the decoded value otherwise.
CacheGet(c, key) ==
    IF ~c.enabled THEN <<>>
    ELSE IF \E e \in c.store : e.key = key
    THEN << Loads((CHOOSE e \in c.store : e.key = key).string) >>
    ELSE <<>>

GetAiAnalysis(c, deal_id) == CacheGet(c, AiAnalysisKey(deal_id))
GetSimilarDeals(c, deal_id, workspace_id) == CacheGet(c, SimilarDealsKey(deal_id, workspace_id))

\* The cache of a process that never constructed a CacheService.  Next to
\* the flag and the keyspace, `invalidated` keeps the deals whose
\* invalidation has completed with no caching call for them since.
NoCache == [enabled |-> FALSE, store |-> {}, invalidated |-> {}]

\* ------------------------------------------------- the monitoring workers
\* The results dict of run_monitoring_cycle as the cycle begins.
NewResults ==
    [workspaces_processed |-> 0, deals_analyzed |-> 0, insights_generated |-> 0,
     critical_alerts |-> 0, errors |-> <<>>]

\* The locals of a worker process that was not started.  seen keeps, for
\* each workspace the current cycle has been through, the deals the
\* backend answered for it; outcome keeps how the last run_once ended.
NoMonitor ==
    [pc |-> "off", cycle_count |-> 0, workspaces |-> <<>>, seen |-> <<>>,
     results |-> NewResults]
NoDealMonitor == [pc |-> "off", outcome |-> ""]

VARIABLES
    db,                  \* the deal table of the workspace
    mem,                 \* what the vector memory currently answers
    revenue_forecaster,  \* the module global _revenue_forecaster
    req,                 \* the requests: locals of each call in flight
    cache,               \* the CacheService: its flag and the Redis keyspace
    monitor,             \* the ContinuousMonitor worker: the locals of main and of its cycle
    deal_monitor         \* the DealMonitor worker: the locals of run_continuous

vars == <<db, mem, revenue_forecaster, req, cache, monitor, deal_monitor>>

\* The locals of a request slot with no call in flight.  via names the HTTP
\* handler that serves the request ("" for a direct caller), status is the
\* status of an HTTPException the handler raised.
Idle ==
    [pc |-> "idle", forecaster |-> <<>>, timeframe |-> <<>>, scenario |-> "",
     days |-> 0, dbRows |-> <<>>, deals |-> <<>>, sims |-> <<>>,
     forecasted |-> <<>>, dealsOk |-> FALSE, goalOk |-> FALSE, result |-> <<>>,
     errAt |-> "", via |-> "", workspace_id |-> "", status |-> 0]

Off == [Idle EXCEPT !.pc = "off"]

\* One caller, a table and a memory answer drawn from the catalogues.
Init ==
    /\ cache = NoCache
    /\ db \in Tables
    /\ mem \in SimResponses
    /\ revenue_forecaster = <<>>
    /\ req = [r \in Requests |-> IF r = 1 THEN Idle ELSE Off]
    /\ monitor = NoMonitor
    /\ deal_monitor = NoDealMonitor

\* The caller obtains the forecaster: get_revenue_forecaster(...).
GetRevenueForecaster(r) ==
    /\ req[r].pc = "idle"
    /\ \E args \in ArgSets :
         /\ revenue_forecaster' = GetOrCreate(revenue_forecaster, args)
         /\ req' = [req EXCEPT ![r].pc = "got",
                               ![r].forecaster = GetOrCreate(revenue_forecaster, args)]
    /\ UNCHANGED <<db, mem, cache, monitor, deal_monitor>>

\* The caller calls forecaster.forecast_revenue(workspace, timeframe,
\* scenario): up to the await of the deal query.  A forecaster of None
\* raises AttributeError in the caller, a timeframe that int() rejects
\* raises ValueError in forecast_revenue.
BeginForecast(call, tf, sc) ==
    IF call.forecaster = <<>>
    THEN [call EXCEPT !.pc = "error", !.errAt = "no_forecaster"]
    ELSE IF ~ParsesAsInt(RemoveD(tf))
    THEN [call EXCEPT !.pc = "error", !.errAt = "timeframe",
                      !.timeframe = tf, !.scenario = sc]
    ELSE [call EXCEPT !.pc = "fetching", !.timeframe = tf, !.scenario = sc,
                      !.days = ParseInt(RemoveD(tf))]

ForecastRevenue(r, tf, sc) ==
    /\ req[r].pc = "got"
    /\ req' = [req EXCEPT ![r] = BeginForecast(@, tf, sc)]
    /\ UNCHANGED <<db, mem, revenue_forecaster, cache, monitor, deal_monitor>>

\* _get_deals_in_timeframe returns: the converted rows, or [] when the
\* query raised.  With no deals the loop is skipped and the call goes on
\* to the await of _get_revenue_goal.
DealsReturned(r) ==
    /\ req[r].pc = "fetching"
    /\ \E ok \in BOOLEAN :
         LET rows == IF ok THEN FindManyInTimeframe(db, req[r].days) ELSE <<>>
             deals == ConvertRows(rows)
         IN  req' = [req EXCEPT ![r].dealsOk = ok,
                                ![r].dbRows = rows,
                                ![r].deals = deals,
                                ![r].pc = IF deals = <<>> THEN "goal" ELSE "forecasting"]
    /\ UNCHANGED <<db, mem, revenue_forecaster, cache, monitor, deal_monitor>>

\* ForecastedSoFar reading a list kept on the shared forecaster instance:
\* the list of whichever call has forecast a deal.
SharedForecastedSoFar(r) ==
    LET busy == { q \in Requests : req[q].forecasted # <<>> }
    IN  IF busy = {} THEN <<>> ELSE req[CHOOSE q \in busy : TRUE].forecasted

\* The list the next forecasted deal is appended to: the local
\* forecasted_deals of the call.
ForecastedSoFar(r) == req[r].forecasted

\* One iteration of the loop: the memory answers the search for the next
\* deal and _forecast_deal returns its forecast.
ForecastNextDeal(r) ==
    /\ req[r].pc = "forecasting"
    /\ LET deal == req[r].deals[Len(req[r].forecasted) + 1]
           forecasted == Append(ForecastedSoFar(r), ForecastDeal(deal, mem))
       IN  req' = [req EXCEPT ![r].forecasted = forecasted,
                              ![r].sims = Append(@, mem),
                              ![r].pc = IF Len(forecasted) >= Len(req[r].deals)
                                        THEN "goal" ELSE "forecasting"]
    /\ UNCHANGED <<db, mem, revenue_forecaster, cache, monitor, deal_monitor>>

\* _get_revenue_goal returns (its query answered or raised) and the rest
\* of forecast_revenue runs to the return of forecast_result.
GoalReturned(r) ==
    /\ req[r].pc = "goal"
    /\ \E ok \in BOOLEAN :
         LET revenue_goal == GetRevenueGoal(db, req[r].days, ok)
         IN  req' = [req EXCEPT ![r].goalOk = ok,
                                ![r].result = <<BuildResult(req[r].forecasted, req[r].timeframe,
                                                            req[r].scenario, revenue_goal)>>,
                                ![r].pc = "done"]
    /\ UNCHANGED <<db, mem, revenue_forecaster, cache, monitor, deal_monitor>>

\* The caller is done with the result or the exception (a handler has
\* answered); the slot is free for the next call.
Return(r) ==
    /\ req[r].pc \in {"done", "error", "responded"}
    /\ req' = [req EXCEPT ![r] = Idle]
    /\ UNCHANGED <<db, mem, revenue_forecaster, cache, monitor, deal_monitor>>

Next ==
    \E r \in Requests :
        \/ GetRevenueForecaster(r)
        \/ \E tf \in Timeframes, sc \in Scenarios : ForecastRevenue(r, tf, sc)
        \/ DealsReturned(r)
        \/ ForecastNextDeal(r)
        \/ GoalReturned(r)
        \/ Return(r)

Spec == Init /\ [][Next]_vars

\* ------------------------------------------------- concurrent callers
\* The table and the memory answers of the runs with several callers.
ConcTable ==
    << WithId([value |-> 1000, probability |-> 40, stage |-> "lead", closeDate |-> <<10>>,
               createdAt |-> <<0>>], 1),
       WithId([value |-> 2500, probability |-> 100, stage |-> "negotiation", closeDate |-> <<10>>,
               createdAt |-> <<0>>], 2) >>

ConcResponses == { ListOf(<<>>), ListOf(<<Similar("won", 90)>>) }

\* What the concurrent callers ask for.
ConcTimeframes == { <<"3", "0", "d">> }
ConcScenarios == {"likely", "worst"}

InitConc ==
    /\ cache = NoCache
    /\ db = ConcTable
    /\ mem \in ConcResponses
    /\ revenue_forecaster = <<>>
    /\ req = [r \in Requests |-> Idle]
    /\ monitor = NoMonitor
    /\ deal_monitor = NoDealMonitor

\* The vector memory changes under the callers: store_deal adds a point,
\* so a later search answers differently.
MemoryUpdate ==
    /\ \E response \in ConcResponses \ {mem} : mem' = response
    /\ UNCHANGED <<db, revenue_forecaster, req, cache, monitor, deal_monitor>>

NextConc ==
    \/ MemoryUpdate
    \/ \E r \in Requests :
        \/ GetRevenueForecaster(r)
        \/ \E tf \in ConcTimeframes, sc \in ConcScenarios : ForecastRevenue(r, tf, sc)
        \/ DealsReturned(r)
        \/ ForecastNextDeal(r)
        \/ GoalReturned(r)
        \/ Return(r)

SpecConc == InitConc /\ [][NextConc]_vars

\* ------------------------------------------------------ HTTP handlers
\* The timeframes and scenarios generate_forecast of main.py lets through.
ValidTimeframes == { <<"3", "0", "d">>, <<"6", "0", "d">>, <<"9", "0", "d">> }
ValidScenarios == {"best", "likely", "worst"}

\* Request bodies (main.py) and query strings (main_simple.py): a mapping
\* that may lack any of its keys.
HttpRequests ==
    { [workspace_id |-> "ws1"],
      [workspace_id |-> "ws1", timeframe |-> <<"9", "0", "d">>, scenario |-> "worst"],
      [timeframe |-> <<"3", "0", "d">>, scenario |-> "likely"],
      [workspace_id |-> "ws1", timeframe |-> <<"1", "w">>, scenario |-> "likely"],
      [workspace_id |-> "ws1", timeframe |-> <<"3", "0", "d">>, scenario |-> "optimistic"] }

\* data.get(key, default); a parameter's default in main_simple.py.
Get(data, key, default) == IF key \in DOMAIN data THEN data[key] ELSE default

\* The parameters of get_revenue_forecaster and the keywords both handlers
\* call it with.  A keyword that is no parameter raises TypeError.
ForecasterParameters == {"db_client", "memory_service", "outcome_tracker"}
HandlerKeywords == {"backend_url"}
AcceptsKeywords(keywords) == keywords \subseteq ForecasterParameters

\* What a handler passes for the three collaborators: nothing.
NoCollaborators ==
    [db_client |-> FALSE, memory_service |-> FALSE, outcome_tracker |-> FALSE]

\* The request as the handler `via` has read it; a missing workspace_id is
\* None, kept as "" (both are falsy).
Received(call, via, data) ==
    [call EXCEPT !.via = via,
                 !.workspace_id = Get(data, "workspace_id", ""),
                 !.timeframe = Get(data, "timeframe", <<"3", "0", "d">>),
                 !.scenario = Get(data, "scenario", "likely")]

\* The handler raises HTTPException(status).
Rejected(call, status, at) ==
    [call EXCEPT !.pc = "responded", !.status = status, !.errAt = at]

\* From get_revenue_forecaster(backend_url=...) to the first await of
\* forecast_revenue; an exception on the way is answered with 500.
ObtainAndForecast(call) ==
    IF ~AcceptsKeywords(HandlerKeywords)
    THEN Rejected(call, 500, "get_revenue_forecaster")
    ELSE BeginForecast([call EXCEPT !.forecaster =
                                      GetOrCreate(revenue_forecaster, NoCollaborators)],
                       call.timeframe, call.scenario)

\* POST /api/v1/forecast/generate of main.py, up to its first await.
GenerateForecast(r, data) ==
    /\ req[r].pc = "idle"
    /\ LET call == Received(req[r], "main", data)
       IN  req' = [req EXCEPT ![r] =
                     IF call.workspace_id = "" THEN Rejected(call, 400, "workspace_id")
                     ELSE IF call.timeframe \notin ValidTimeframes
                     THEN Rejected(call, 400, "timeframe")
                     ELSE IF call.scenario \notin ValidScenarios
                     THEN Rejected(call, 400, "scenario")
                     ELSE ObtainAndForecast(call)]
    /\ UNCHANGED <<db, mem, revenue_forecaster, cache, monitor, deal_monitor>>

\* GET /api/v1/forecast of main_simple.py, up to its first await.  The
\* framework answers 422 when the required workspace_id is missing.
GenerateForecastSimple(r, data) ==
    /\ req[r].pc = "idle"
    /\ LET call == Received(req[r], "main_simple", data)
       IN  req' = [req EXCEPT ![r] =
                     IF "workspace_id" \notin DOMAIN data
                     THEN Rejected(call, 422, "workspace_id")
                     ELSE ObtainAndForecast(call)]
    /\ UNCHANGED <<db, mem, revenue_forecaster, cache, monitor, deal_monitor>>

\* The status of the answer to a request a handler has finished: the
\* HTTPException it raised, 500 for an exception of forecast_revenue, 200
\* for a returned forecast.
HttpStatus(r) ==
    IF req[r].pc = "responded" THEN req[r].status
    ELSE IF req[r].pc = "error" THEN 500
    ELSE 200

InitHttp ==
    /\ cache = NoCache
    /\ db = ConcTable
    /\ mem \in ConcResponses
    /\ revenue_forecaster = <<>>
    /\ req = [r \in Requests |-> IF r = 1 THEN Idle ELSE Off]
    /\ monitor = NoMonitor
    /\ deal_monitor = NoDealMonitor

\* The service: both HTTP handlers next to direct callers of the forecaster.
NextHttp ==
    \E r \in Requests :
        \/ \E data \in HttpRequests : GenerateForecast(r, data)
        \/ \E data \in HttpRequests : GenerateForecastSimple(r, data)
        \/ GetRevenueForecaster(r)
        \/ \E tf \in Timeframes, sc \in Scenarios : ForecastRevenue(r, tf, sc)
        \/ DealsReturned(r)
        \/ ForecastNextDeal(r)
        \/ GoalReturned(r)
        \/ Return(r)

SpecHttp == InitHttp /\ [][NextHttp]_vars

\* ------------------------------------------------ the cache in use
\* CacheService.__init__: enabled iff Redis answered the ping.
InitCache ==
    /\ cache \in { [enabled |-> e, store |-> {}, invalidated |-> {}] : e \in BOOLEAN }
    /\ db = <<>>
    /\ mem = ListOf(<<>>)
    /\ revenue_forecaster = <<>>
    /\ req = [r \in Requests |-> Off]
    /\ monitor = NoMonitor
    /\ deal_monitor = NoDealMonitor

\* CacheService.set as the two caching calls use it: nothing when the
\* cache is disabled or Redis raises (ok = FALSE).
CacheSet(c, key, value, ok) ==
    IF c.enabled /\ ok THEN [c EXCEPT !.store = StoreSet(@, key, Dumps(value))] ELSE c

\* CacheService.delete_pattern: nothing when the cache is disabled or Redis
\* raises.
DeletePattern(c, pattern, ok) ==
    IF c.enabled /\ ok THEN [c EXCEPT !.store = StoreDeletePattern(@, pattern)] ELSE c

CacheSimilarDeals(deal_id, workspace_id, similar_deals) ==
    /\ \E ok \in BOOLEAN :
         cache' = [CacheSet(cache, SimilarDealsKey(deal_id, workspace_id), similar_deals, ok)
                     EXCEPT !.invalidated = @ \ {deal_id}]
    /\ UNCHANGED <<db, mem, revenue_forecaster, req, monitor, deal_monitor>>

CacheAiAnalysis(deal_id, analysis) ==
    /\ \E ok \in BOOLEAN :
         cache' = [CacheSet(cache, AiAnalysisKey(deal_id), analysis, ok)
                     EXCEPT !.invalidated = @ \ {deal_id}]
    /\ UNCHANGED <<db, mem, revenue_forecaster, req, monitor, deal_monitor>>

InvalidateDealCache(deal_id) ==
    /\ \E ok \in BOOLEAN :
         cache' = [DeletePattern(cache, DealPattern(deal_id), ok)
                     EXCEPT !.invalidated = IF cache.enabled THEN @ \cup {deal_id} ELSE @]
    /\ UNCHANGED <<db, mem, revenue_forecaster, req, monitor, deal_monitor>>

InvalidateWorkspaceCache(workspace_id) ==
    /\ \E ok \in BOOLEAN :
         cache' = DeletePattern(cache, WorkspacePattern(workspace_id), ok)
    /\ UNCHANGED <<db, mem, revenue_forecaster, req, monitor, deal_monitor>>

\* Redis drops an entry whose time to live has run out.
Expire ==
    /\ \E e \in cache.store : cache' = [cache EXCEPT !.store = @ \ {e}]
    /\ UNCHANGED <<db, mem, revenue_forecaster, req, monitor, deal_monitor>>

NextCache ==
    \/ \E d \in CacheDealIds, w \in CacheWorkspaceIds, v \in CacheValues : CacheSimilarDeals(d, w, v)
    \/ \E d \in CacheDealIds, v \in CacheValues : CacheAiAnalysis(d, v)
    \/ \E d \in CacheDealIds : InvalidateDealCache(d)
    \/ \E w \in CacheWorkspaceIds : InvalidateWorkspaceCache(w)
    \/ Expire

SpecCache == InitCache /\ [][NextCache]_vars

\* ------------------------------------------- ContinuousMonitor (worker)
\* _fetch_active_workspaces.  The method is a stub that answers one fixed
\* workspace; the model lets it answer any list of up to MaxWorkspaces
\* workspaces (each with its id and name) or raise, as the backend call it
\* stands for can.  A workspace is named by its id.
FetchedWorkspaces(n) == [raised |-> FALSE, workspaces |-> [i \in 1..n |-> i]]
FetchRaises == [raised |-> TRUE, workspaces |-> <<>>]
FetchOutcomes == { FetchedWorkspaces(n) : n \in 0..MaxWorkspaces } \cup { FetchRaises }

\* A deal as the cycle meets it: detect says what _detect_deal_anomalies
\* does with it ("none": no anomaly, "some": anomalies, "raise": updatedAt
\* or createdAt is missing or no date), insights are the priorities of the
\* insights _generate_insights_for_deal returns for it ([] also when the
\* generation fails).
MonitoredDeal(detect, insights) == [detect |-> detect, insights |-> insights]

\* What _fetch_workspace_deals answers for a workspace ([] also when the
\* request fails).
WorkspaceDeals ==
    { <<>>,
      <<MonitoredDeal("none", <<>>)>>,
      <<MonitoredDeal("some", <<"critical", "high">>), MonitoredDeal("some", <<>>)>>,
      <<MonitoredDeal("some", <<"critical">>), MonitoredDeal("raise", <<>>)>>,
      <<MonitoredDeal("raise", <<>>)>> }

CountCritical(insights) == Cardinality({ i \in 1..Len(insights) : insights[i] = "critical" })

\* _process_workspace: every deal is checked for anomalies before any
\* insight is generated; an exception is logged and raised again.
ProcessWorkspace(deals) ==
    LET flagged == SelectSeq(deals, LAMBDA d : d.detect = "some")
    IN  IF \E i \in 1..Len(deals) : deals[i].detect = "raise"
        THEN [raised |-> TRUE, deals_analyzed |-> 0, insights_generated |-> 0,
              critical_alerts |-> 0]
        ELSE [raised |-> FALSE,
              deals_analyzed |-> Len(deals),
              insights_generated |-> SeqSum([i \in 1..Len(flagged) |-> Len(flagged[i].insights)]),
              critical_alerts |-> SeqSum([i \in 1..Len(flagged) |->
                                            CountCritical(flagged[i].insights)])]

WorkspaceError(workspace) == [kind |-> "workspace", workspace_id |-> workspace]
FatalError == [kind |-> "fatal", workspace_id |-> 0]

\* AddWorkspaceResults counting a workspace as processed before its
\* processing is known to have succeeded.
AddWorkspaceResultsCountingFailed(results, workspace, outcome) ==
    IF outcome.raised
    THEN [results EXCEPT !.workspaces_processed = @ + 1,
                         !.errors = Append(@, WorkspaceError(workspace))]
    ELSE [results EXCEPT !.workspaces_processed = @ + 1,
                         !.deals_analyzed = @ + outcome.deals_analyzed,
                         !.insights_generated = @ + outcome.insights_generated,
                         !.critical_alerts = @ + outcome.critical_alerts]

\* The body of the loop over the workspaces: the inner try and its except.
AddWorkspaceResults(results, workspace, outcome) ==
    IF outcome.raised
    THEN [results EXCEPT !.errors = Append(@, WorkspaceError(workspace))]
    ELSE [results EXCEPT !.workspaces_processed = @ + 1,
                         !.deals_analyzed = @ + outcome.deals_analyzed,
                         !.insights_generated = @ + outcome.insights_generated,
                         !.critical_alerts = @ + outcome.critical_alerts]

\* main at the top of its loop: cycle_count += 1 (the model stops counting
\* at MaxCycles) and run_monitoring_cycle up to its first workspace.  A
\* fetch that raises, or that answers no workspace, ends the cycle: main
\* logs the results and goes to sleep.
MonitorStartCycle ==
    /\ monitor.pc = "cycle"
    /\ \E fetch \in FetchOutcomes :
         monitor' = [monitor EXCEPT
                       !.cycle_count = Min(@ + 1, MaxCycles),
                       !.workspaces = fetch.workspaces,
                       !.seen = <<>>,
                       !.results = IF fetch.raised
                                   THEN [NewResults EXCEPT !.errors = <<FatalError>>]
                                   ELSE NewResults,
                       !.pc = IF fetch.workspaces = <<>> THEN "sleeping" ELSE "processing"]
    /\ UNCHANGED <<db, mem, revenue_forecaster, req, cache, deal_monitor>>

\* One iteration of the loop over the workspaces; after the last one the
\* cycle returns its results, main logs them and goes to sleep.
MonitorProcessWorkspace ==
    /\ monitor.pc = "processing"
    /\ \E deals \in WorkspaceDeals :
         LET k == Len(monitor.seen) + 1
         IN  monitor' = [monitor EXCEPT
                           !.results = AddWorkspaceResults(@, monitor.workspaces[k],
                                                           ProcessWorkspace(deals)),
                           !.seen = Append(@, deals),
                           !.pc = IF k >= Len(monitor.workspaces)
                                  THEN "sleeping" ELSE "processing"]
    /\ UNCHANGED <<db, mem, revenue_forecaster, req, cache, deal_monitor>>

\* asyncio.sleep(30 * 60) returns and the loop goes round.
MonitorWake ==
    /\ monitor.pc = "sleeping"
    /\ monitor' = [monitor EXCEPT !.pc = "cycle"]
    /\ UNCHANGED <<db, mem, revenue_forecaster, req, cache, deal_monitor>>

\* ------------------------------------------------- DealMonitor (worker)
\* A deal of the backend's answer to fetch_active_deals: its id (<<>> when
\* the dict has no id) and the number of anomalies the detector finds.
BackendDeal(id, anomalies) == [id |-> id, anomalies |-> anomalies]

\* What fetch_active_deals returns ([] also when the request fails).
ActiveDeals ==
    { <<>>,
      <<BackendDeal(<<1>>, 0)>>,
      <<BackendDeal(<<1>>, 2), BackendDeal(<<2>>, 0)>>,
      <<BackendDeal(<<>>, 0)>> }

\* run_once(workspace_id): monitor_workspace returns its summary, or
\* analyze_workspace_deals raises KeyError on deal['id'].
RunOnce(deals) ==
    IF deals = <<>> THEN "completed"
    ELSE IF \E i \in 1..Len(deals) : deals[i].id = <<>> THEN "raised"
    ELSE "completed"

\* AfterRunOnce letting the exception of a failed cycle leave the loop.
AfterRunOnceStopsOnError(worker, outcome) ==
    [worker EXCEPT !.outcome = outcome,
                   !.pc = IF outcome = "raised" THEN "stopped" ELSE "sleeping"]

\* The rest of the loop body of run_continuous: the except logs the error
\* of a cycle that raised, and either way the worker goes to sleep.
AfterRunOnce(worker, outcome) ==
    [worker EXCEPT !.outcome = outcome, !.pc = "sleeping"]

DealMonitorRunOnce ==
    /\ deal_monitor.pc = "cycle"
    /\ \E deals \in ActiveDeals :
         deal_monitor' = AfterRunOnce(deal_monitor, RunOnce(deals))
    /\ UNCHANGED <<db, mem, revenue_forecaster, req, cache, monitor>>

\* asyncio.sleep(interval_minutes * 60) returns and the loop goes round.
DealMonitorWake ==
    /\ deal_monitor.pc = "sleeping"
    /\ deal_monitor' = [deal_monitor EXCEPT !.pc = "cycle"]
    /\ UNCHANGED <<db, mem, revenue_forecaster, req, cache, monitor>>

\* Both workers started, no forecast request in flight.
InitMonitor ==
    /\ cache = NoCache
    /\ db = <<>>
    /\ mem = ListOf(<<>>)
    /\ revenue_forecaster = <<>>
    /\ req = [r \in Requests |-> Off]
    /\ monitor = [NoMonitor EXCEPT !.pc = "cycle"]
    /\ deal_monitor = [NoDealMonitor EXCEPT !.pc = "cycle"]

MonitorNext == MonitorStartCycle \/ MonitorProcessWorkspace \/ MonitorWake
DealMonitorNext == DealMonitorRunOnce \/ DealMonitorWake

NextMonitor == MonitorNext \/ DealMonitorNext

SpecMonitor == InitMonitor /\ [][NextMonitor]_vars

\* Each worker is an asyncio task of its own process: its requests to the
\* backend and to the model run under the clients' timeouts and its sleep
\* is a timer, so a worker that can take its next step takes it.
SpecMonitorLive ==
    SpecMonitor /\ WF_vars(MonitorNext) /\ WF_vars(DealMonitorNext)

\* =====================================================================
\* Properties
\* =====================================================================
Done(r) == req[r].pc = "done"
Res(r) == req[r].result[1]

\* Every input deal has a value >= 0 and a probability in 0..100.
InputsInRange(rows) ==
    \A i \in 1..Len(rows) : rows[i].value >= 0 /\ rows[i].probability \in 0..100

\* C1: for every deal list with values >= 0 and probabilities 0..100, every
\* timeframe and scenario, the result has
\* worst_case <= likely_case <= best_case.
C1_ScenarioOrdering ==
    \A r \in Requests :
        Done(r) /\ InputsInRange(req[r].dbRows)
            => /\ Res(r).worst_case <= Res(r).likely_case
               /\ Res(r).likely_case <= Res(r).best_case

\* C2: the adjusted probability of every forecast deal lies in [0, 1]
\* (0..1000 permille), whatever the deal's input probability and whichever
\* path computed it.
C2_AdjustedProbabilityInUnitInterval ==
    \A r \in Requests : \A i \in 1..Len(req[r].forecasted) :
        /\ req[r].forecasted[i].adjusted_probability >= 0
        /\ req[r].forecasted[i].adjusted_probability <= 1000

\* C3: the confidence of every forecast result lies in [0, 1] (0..100
\* hundredths), for every deal list and every answer of the similar-deal
\* search.
C3_ConfidenceInUnitInterval ==
    \A r \in Requests :
        Done(r) => Res(r).confidence >= 0 /\ Res(r).confidence <= 100

\* A result whose confidence is held at 1 by the clamp of the deal
\* confidence: five similar deals of score 1.0 for a negotiation deal.
C3_Witness ==
    \E r \in Requests :
        /\ Done(r)
        /\ Res(r).deals_analyzed > 0
        /\ Res(r).confidence = 100
        /\ \E i \in 1..Len(req[r].forecasted) :
             req[r].forecasted[i].similar_deals_analyzed >= 5

\* C4: a forecast over an empty deal list returns predicted_revenue =
\* best_case = likely_case = worst_case = 0, confidence = 0 and
\* deals_analyzed = 0, for every timeframe and scenario, and does not
\* raise: a call ends in an exception only before its deal list is
\* fetched (no forecaster, or a timeframe that is no number of days).
C4_EmptyForecastIsZero ==
    \A r \in Requests :
        /\ Done(r) /\ req[r].deals = <<>>
              => /\ Res(r).predicted_revenue = 0
                 /\ Res(r).best_case = 0
                 /\ Res(r).likely_case = 0
                 /\ Res(r).worst_case = 0
                 /\ Res(r).confidence = 0
                 /\ Res(r).deals_analyzed = 0
        /\ req[r].pc = "error" => req[r].errAt \in {"no_forecaster", "timeframe"}

\* A finished forecast over an empty deal list, the table itself not empty.
C4_Witness ==
    \E r \in Requests : Done(r) /\ req[r].deals = <<>> /\ db # <<>>

\* C5: predicted_revenue equals best_case when the scenario is best,
\* worst_case when it is worst, and likely_case for any other scenario.
C5_PredictedIsRequestedScenario ==
    \A r \in Requests :
        Done(r) =>
            Res(r).predicted_revenue =
                CASE req[r].scenario = "best" -> Res(r).best_case
                  [] req[r].scenario = "worst" -> Res(r).worst_case
                  [] OTHER -> Res(r).likely_case

\* A worst-case forecast in which only some deals count as high
\* probability, so that worst_case differs from 0 and from likely_case.
C5_Witness ==
    \E r \in Requests :
        /\ Done(r)
        /\ req[r].scenario = "worst"
        /\ Res(r).predicted_revenue > 0
        /\ Res(r).predicted_revenue < Res(r).likely_case

\* The table without its i-th row.
WithoutRow(table, i) ==
    [j \in 1..(Len(table) - 1) |-> IF j < i THEN table[j] ELSE table[j + 1]]

\* The four scenario values of a result.
ScenarioValues(result) ==
    <<result.best_case, result.likely_case, result.worst_case, result.predicted_revenue>>

\* C6: a deal of probability 0 contributes nothing: the forecast of the
\* table has the same best_case, likely_case, worst_case and
\* predicted_revenue as the forecast of the table without that deal.
C6_ZeroProbabilityContributesNothing ==
    \A r \in Requests :
        Done(r) =>
            \A i \in 1..Len(db) :
                db[i].probability = 0 =>
                    ScenarioValues(Res(r)) =
                        ScenarioValues(SoloResult(WithoutRow(db, i), Repeat(mem, Len(db)),
                                                  req[r].timeframe, req[r].scenario,
                                                  req[r].dealsOk, req[r].goalOk))

\* The probabilities a deal's probability is raised to.
RaisedProbabilities == {40, 100}

\* C7: likely_case is monotone in each deal's probability: raising one
\* deal's probability p to p' > p (both in 0..100), all else equal, does
\* not lower likely_case.
C7_LikelyCaseMonotone ==
    \A r \in Requests :
        Done(r) =>
            \A i \in 1..Len(db) : \A p \in RaisedProbabilities :
                db[i].probability \in 0..100 /\ p > db[i].probability =>
                    SoloResult([db EXCEPT ![i].probability = p], Repeat(mem, Len(db)),
                               req[r].timeframe, req[r].scenario,
                               req[r].dealsOk, req[r].goalOk).likely_case
                        >= Res(r).likely_case

Compared(result) ==
    [predicted_revenue |-> result.predicted_revenue,
     best_case |-> result.best_case,
     likely_case |-> result.likely_case,
     worst_case |-> result.worst_case,
     confidence |-> result.confidence,
     pipeline_coverage |-> result.pipeline_coverage,
     revenue_goal |-> result.revenue_goal,
     required_pipeline |-> result.required_pipeline,
     breakdown_by_stage |-> result.breakdown_by_stage,
     forecasted_deals |-> result.forecasted_deals]

\* Two finished calls with the same timeframe and scenario to which the
\* database gave the same deals (both queries answered alike).
SameInputs(r1, r2) ==
    /\ Done(r1) /\ Done(r2)
    /\ req[r1].timeframe = req[r2].timeframe
    /\ req[r1].scenario = req[r2].scenario
    /\ req[r1].dealsOk = req[r2].dealsOk
    /\ req[r1].goalOk = req[r2].goalOk
    /\ req[r1].dbRows = req[r2].dbRows
    /\ req[r1].deals = req[r2].deals

Isolated ==
    \A r \in Requests :
        Done(r) =>
            /\ Len(req[r].sims) = Len(req[r].deals)
            /\ Res(r) = SoloResult(db, req[r].sims, req[r].timeframe, req[r].scenario,
                                   req[r].dealsOk, req[r].goalOk)

C11_FetchFailureIsReported ==
    \A r \in Requests : Done(r) => req[r].dealsOk

\* The fields of a result a deal contributes to: the scenario values (the
\* total pipeline value is best_case), the stage breakdown, the number of
\* deals analysed and the forecasts of the deals.
Contributions(result) ==
    [scenario_values |-> ScenarioValues(result),
     breakdown_by_stage |-> result.breakdown_by_stage,
     deals_analyzed |-> result.deals_analyzed,
     forecasted_deals |-> result.forecasted_deals]

\* C12: a deal whose value or probability is negative is excluded from the
\* forecast: the forecast of the table has the scenario values, stage
\* breakdown, deals_analyzed and deal forecasts of the forecast of the table
\* without that deal.
C12_NegativeDealIsExcluded ==
    \A r \in Requests :
        Done(r) =>
            \A i \in 1..Len(db) :
                db[i].value < 0 \/ db[i].probability < 0 =>
                    Contributions(Res(r)) =
                        Contributions(SoloResult(WithoutRow(db, i), Repeat(mem, Len(db)),
                                                 req[r].timeframe, req[r].scenario,
                                                 req[r].dealsOk, req[r].goalOk))

\* A request a handler has finished serving.
Answered(r) == req[r].via # "" /\ req[r].pc \in {"responded", "done", "error"}

\* C13: for a request with a non-empty workspace_id, a timeframe in
\* {30d, 60d, 90d} and a scenario in {best, likely, worst}, the handler of
\* main.py obtains a forecaster and calls forecast_revenue with those
\* values; it answers success with the forecast, and answers with an error
\* only when forecast_revenue itself failed.
C13_ValidRequestIsForecast ==
    \A r \in Requests :
        /\ Answered(r)
        /\ req[r].via = "main"
        /\ req[r].workspace_id # ""
        /\ req[r].timeframe \in ValidTimeframes
        /\ req[r].scenario \in ValidScenarios
        => /\ req[r].forecaster # <<>>
           /\ \/ Done(r) /\ HttpStatus(r) = 200
              \/ req[r].pc = "error" /\ req[r].errAt = "timeframe"

OpenInTimeframe(table, days) ==
    { table[i].id : i \in { j \in 1..Len(table) :
                              /\ table[j].stage \notin {"won", "lost"}
                              /\ \/ table[j].closeDate = <<>>
                                 \/ table[j].closeDate[1] <= days } }

\* C15: the deals a forecast analyses are exactly the workspace's open deals
\* whose closeDate is absent or within the timeframe; every open deal
\* without a closeDate is analysed (stated for tables whose values are
\* >= 0 and whose probabilities are 0..100, and for a fetch that answered).
C15_AnalysedAreOpenInTimeframe ==
    \A r \in Requests :
        Done(r) /\ req[r].dealsOk /\ InputsInRange(db) =>
            { req[r].forecasted[i].deal_id : i \in 1..Len(req[r].forecasted) }
                = OpenInTimeframe(db, req[r].days)

\* C16: after invalidate_deal_cache(d) has completed on an enabled cache and
\* until the next cache_ai_analysis or cache_similar_deals call for d,
\* get_ai_analysis(d) and get_similar_deals(d, w) return None for every
\* workspace w.
C16_InvalidatedDealIsNotCached ==
    \A d \in cache.invalidated :
        /\ GetAiAnalysis(cache, d) = <<>>
        /\ \A w \in CacheWorkspaceIds : GetSimilarDeals(cache, d, w) = <<>>

\* C17: for an empty deal list the result is zero in every monetary field:
\* revenue_goal, required_pipeline and pipeline_coverage are 0, and
\* breakdown_by_stage and forecasted_deals are empty.
C17_EmptyForecastHasNoGoal ==
    \A r \in Requests :
        Done(r) /\ req[r].deals = <<>> =>
            /\ Res(r).revenue_goal = 0
            /\ Res(r).required_pipeline = 0
            /\ Res(r).pipeline_coverage = 0
            /\ Res(r).breakdown_by_stage = <<>>
            /\ Res(r).forecasted_deals = <<>>

\* total_pipeline_value: the sum of value over the deals analysed, in mills.
TotalPipelineValue(r) ==
    SeqSum([i \in 1..Len(req[r].forecasted) |-> req[r].forecasted[i].value])

\* Twice the multiplier of the goal: 1.0 for 30 days, 1.5 for 60, 2.0 for 90.
TwiceGoalMultiplier(days) == IF days = 30 THEN 2 ELSE IF days = 60 THEN 3 ELSE 4

\* C18: revenue_goal equals total_pipeline_value x 0.4 x m, with m = 1.0,
\* 1.5, 2.0 for a timeframe of 30, 60, 90 days (to the cent: the goal is in
\* cents, 0.4 x m x a value in mills is value x 2m / 50 cents).
C18_GoalIsShareOfPipeline ==
    \A r \in Requests :
        Done(r) /\ req[r].days \in {30, 60, 90} =>
            Res(r).revenue_goal
                = RoundHalfEven(TotalPipelineValue(r) * TwiceGoalMultiplier(req[r].days), 50)

\* C19: pipeline_coverage is total_pipeline_value divided by revenue_goal
\* when revenue_goal > 0 and 0 when revenue_goal is 0, and the divisor is
\* never 0; the result carries it rounded to two decimals.
C19_CoverageIsPipelineOverGoal ==
    \A r \in Requests :
        Done(r) =>
            LET total_value == TotalPipelineValue(r)
                revenue_goal == Res(r).revenue_goal
                coverage == PipelineCoverage(total_value, revenue_goal)
            IN  /\ coverage[2] # 0
                /\ revenue_goal > 0 =>
                      /\ coverage = <<10 * total_value, revenue_goal>>
                      /\ Res(r).pipeline_coverage = RoundHalfEven(10 * total_value, revenue_goal)
                /\ revenue_goal = 0 =>
                      /\ coverage[1] = 0
                      /\ Res(r).pipeline_coverage = 0

\* A forecast with deals analysed and a revenue goal of 0: the values of
\* the workspace's deals cancel out.
C19_Witness ==
    \E r \in Requests :
        /\ Done(r)
        /\ Res(r).deals_analyzed > 0
        /\ Res(r).best_case > 0
        /\ Res(r).revenue_goal = 0

\* The totals a trial of the simulation can produce over the analysed
\* deals: in a trial each deal closes or does not, and the total is the sum
\* of value over the deals that close.
TrialTotals(values) ==
    { SeqSum([i \in 1..Len(values) |-> IF i \in closed THEN values[i] ELSE 0]) :
        closed \in SUBSET (1..Len(values)) }

\* amount (cents) lies between two trial totals (mills), to the cent.
WithinTotals(amount, totals) ==
    \E a, b \in totals : a - 5 <= 10 * amount /\ 10 * amount <= b + 5

\* C20: best_case, likely_case and worst_case are the 95th, 50th and 5th
\* percentile of the per-trial totals of the simulation over the analysed
\* deals.  Whatever the number of trials and the random draws, a percentile
\* lies between two of the totals, and the 50th (the median) is one of the
\* totals or the midpoint of two of them (stated for tables whose values
\* are >= 0 and whose probabilities are 0..100).
C20_ScenarioValuesArePercentiles ==
    \A r \in Requests :
        Done(r) /\ InputsInRange(db) =>
            LET totals == TrialTotals([i \in 1..Len(req[r].forecasted) |->
                                         req[r].forecasted[i].value])
            IN  /\ WithinTotals(Res(r).best_case, totals)
                /\ WithinTotals(Res(r).worst_case, totals)
                /\ \E a, b \in totals :
                      /\ a + b - 10 <= 20 * Res(r).likely_case
                      /\ 20 * Res(r).likely_case <= a + b + 10

\* C21: for fixed deals and timeframe the worst_case, likely_case and
\* best_case of the result are the same whichever scenario (best, likely,
\* worst) is requested: the call's result has those of the same call made
\* with any other scenario (stated for tables whose values are >= 0 and
\* whose probabilities are 0..100).
C21_ScenarioValuesIndependentOfScenario ==
    \A r \in Requests :
        Done(r) /\ InputsInRange(db) /\ req[r].scenario \in ValidScenarios =>
            \A scenario \in ValidScenarios :
                LET other == SoloResult(db, req[r].sims, req[r].timeframe, scenario,
                                        req[r].dealsOk, req[r].goalOk)
                IN  /\ other.worst_case = Res(r).worst_case
                    /\ other.likely_case = Res(r).likely_case
                    /\ other.best_case = Res(r).best_case

\* The stage multiplier of the specification, in hundredths.
StageMultiplier(stage) ==
    CASE stage = "lead" -> 70
      [] stage = "qualified" -> 85
      [] stage = "proposal" -> 100
      [] stage = "negotiation" -> 110
      [] stage = "closed_won" -> 100
      [] stage = "closed_lost" -> 0
      [] OTHER -> 100

\* The age multiplier max(1 - days_old / 180, 0.5) as a number of 180ths;
\* 1.0 for a deal without createdAt.
AgeMultiplier(createdAt) ==
    IF createdAt = <<>> THEN 180 ELSE Max(180 - createdAt[1], 90)

\* C22: the adjusted probability of a forecast deal is
\* clamp(probability / 100 x stage multiplier x age multiplier, 0, 1), with
\* age multiplier max(1 - days_old / 180, 0.5) (stated for the deals whose
\* similar-deal search found nothing, to three decimal places).
C22_AdjustedProbabilityIsStageAndAgeWeighted ==
    \A r \in Requests :
        Done(r) /\ InputsInRange(db) =>
            \A i \in 1..Len(Res(r).forecasted_deals) :
                LET forecast == Res(r).forecasted_deals[i]
                    row == db[forecast.deal_id]
                    product == row.probability * StageMultiplier(row.stage)
                               * AgeMultiplier(row.createdAt)
                IN  req[r].sims[i] = ListOf(<<>>) =>
                        forecast.adjusted_probability
                            = RoundHalfEven(Min(Max(product, 0), 1800000), 1800)

\* C23: a fetched deal without createdAt is forecast and no deal of the
\* list is dropped: when the query answered with a row whose createdAt is
\* missing, the call returns a result in which every fetched row with a
\* positive value is among the forecast deals.
C23_MissingCreatedAtDropsNoDeal ==
    \A r \in Requests :
        /\ Done(r)
        /\ req[r].dealsOk
        /\ InputsInRange(db)
        /\ \E j \in 1..Len(req[r].dbRows) : req[r].dbRows[j].createdAt = <<>>
        => \A j \in 1..Len(req[r].dbRows) :
               req[r].dbRows[j].value > 0 =>
                   \E i \in 1..Len(Res(r).forecasted_deals) :
                       Res(r).forecasted_deals[i].deal_id = req[r].dbRows[j].id

\* C24: forecasted_deals lists the analysed deals by descending
\* weighted_value, deals of equal weighted_value in input order, and is the
\* first TopK deals of that order.
C24_ForecastedDealsAreRanked ==
    \A r \in Requests :
        Done(r) /\ InputsInRange(db) =>
            LET listed == Res(r).forecasted_deals
            IN  /\ Len(listed) = Min(TopK, Res(r).deals_analyzed)
                /\ \A i, j \in 1..Len(listed) :
                       i < j =>
                           \/ listed[i].weighted_value > listed[j].weighted_value
                           \/ /\ listed[i].weighted_value = listed[j].weighted_value
                              /\ listed[i].deal_id < listed[j].deal_id

\* The place of a stage in the canonical order of the specification.
StageRank(stage) ==
    CASE stage = "lead" -> 1
      [] stage = "qualified" -> 2
      [] stage = "proposal" -> 3
      [] stage = "negotiation" -> 4
      [] stage = "closed_won" -> 5
      [] stage = "closed_lost" -> 6
      [] OTHER -> 7

\* C25: breakdown_by_stage has exactly one entry for each stage that occurs
\* among the analysed deals, in the order lead, qualified, proposal,
\* negotiation, closed_won, closed_lost, other stages after, whatever the
\* order of the input.
C25_BreakdownInCanonicalOrder ==
    \A r \in Requests :
        Done(r) /\ InputsInRange(db) =>
            LET breakdown == Res(r).breakdown_by_stage
                analysed == req[r].forecasted
            IN  /\ { breakdown[i].stage : i \in 1..Len(breakdown) }
                     = { analysed[i].stage : i \in 1..Len(analysed) }
                /\ \A i, j \in 1..Len(breakdown) :
                       i < j => /\ breakdown[i].stage # breakdown[j].stage
                                /\ StageRank(breakdown[i].stage) <= StageRank(breakdown[j].stage)

\* The analysed deals of one stage, in input order.
DealsOfStage(forecasted, stage) == SelectSeq(forecasted, LAMBDA f : f.stage = stage)

\* C26: in each entry of breakdown_by_stage, deals is the number of the
\* stage's deals, weighted_value the sum of their value x adjusted
\* probability (each to the cent), and avg_probability the arithmetic mean
\* of their adjusted probabilities, whatever their values (to within 0.02,
\* for entries of at least one currency unit, where the rounding of each
\* deal to the cent cannot move the ratio further).
C26_BreakdownEntryFigures ==
    \A r \in Requests :
        Done(r) /\ InputsInRange(db) =>
            \A k \in 1..Len(Res(r).breakdown_by_stage) :
                LET entry == Res(r).breakdown_by_stage[k]
                    of == DealsOfStage(req[r].forecasted, entry.stage)
                    n == Len(of)
                    products == SeqSum([i \in 1..n |-> of[i].value * of[i].adjusted_probability])
                    adjusted == SeqSum([i \in 1..n |-> of[i].adjusted_probability])
                    difference == 10 * n * entry.avg_probability[1]
                                  - adjusted * (entry.avg_probability[2] \div 100)
                IN  /\ entry.deals = n
                    /\ 10 * entry.weighted_value - products \in (-5000 * n)..(5000 * n)
                    /\ entry.total_value >= 1000 =>
                           50 * difference \in (-1000 * n * entry.total_value)..(1000 * n * entry.total_value)

\* C27: when every analysed deal has win probability 0 the result has
\* confidence 0 and likely_case = worst_case = 0.
C27_AllZeroProbabilityForecastsNothing ==
    \A r \in Requests :
        /\ Done(r)
        /\ InputsInRange(db)
        /\ Res(r).deals_analyzed > 0
        /\ \A i \in 1..Len(req[r].forecasted) :
               db[req[r].forecasted[i].deal_id].probability = 0
        => /\ Res(r).confidence = 0
           /\ Res(r).likely_case = 0
           /\ Res(r).worst_case = 0

\* C30: _forecast_deal returns a forecast for every deal whatever the
\* similar-deal search does.  When the search raises, returns nothing or
\* returns only deals whose outcome is neither won nor lost, the adjusted
\* probability is the deal's probability / 100 unchanged; otherwise it is
\* 0.7 x probability / 100 + 0.3 x won / (won + lost), clamped to 0-1.
C30_SimilarDealsBlendOrLeaveProbability ==
    \A r \in Requests :
        \A i \in 1..Len(req[r].forecasted) :
            LET deal == req[r].deals[i]
                response == req[r].sims[i]
                forecast == req[r].forecasted[i]
                won == CountOutcome(response.deals, "won")
                lost == CountOutcome(response.deals, "lost")
                blend == 7 * deal.probability * (won + lost) + 300 * won
            IN  /\ forecast.deal_id = deal.id
                /\ IF response.kind \in {"raise", "none"} \/ won + lost = 0
                   THEN forecast.adjusted_probability = 10 * deal.probability
                   ELSE forecast.adjusted_probability
                            = RoundHalfEven(Min(Max(blend, 0), 1000 * (won + lost)), won + lost)

\* A deal forecast after a search that found only deals with no outcome,
\* in a call that has returned.
C30_Witness ==
    \E r \in Requests :
        /\ Done(r)
        /\ \E i \in 1..Len(req[r].forecasted) :
               /\ req[r].sims[i] = ListOf(<<Similar("none", 80)>>)
               /\ req[r].forecasted[i].adjusted_probability = 10 * req[r].deals[i].probability

\* C28: the monitoring workers never stop on a failed cycle: in the main
\* loop of ContinuousMonitor and in DealMonitor.run_continuous every cycle,
\* whether it ended normally or raised, is followed by the sleep, and
\* every sleep by the start of the next cycle.
C28_NextCycleAlwaysStarts ==
    /\ (monitor.pc \in {"cycle", "processing"}) ~> (monitor.pc = "sleeping")
    /\ (monitor.pc = "sleeping") ~> (monitor.pc = "cycle")
    /\ (deal_monitor.pc = "cycle") ~> (deal_monitor.pc = "sleeping")
    /\ (deal_monitor.pc = "sleeping") ~> (deal_monitor.pc = "cycle")

\* Both workers at the start of a cycle after a cycle that failed: a
\* run_once that raised, a monitoring cycle that returned errors.
C28_Witness ==
    /\ deal_monitor.pc = "cycle"
    /\ deal_monitor.outcome = "raised"
    /\ monitor.pc = "cycle"
    /\ monitor.results.errors # <<>>

\* Whether the processing of a workspace with these deals fails.
WorkspaceFails(deals) == \E i \in 1..Len(deals) : deals[i].detect = "raise"

\* The workspaces the cycle has been through whose processing failed
\* (succeeded), in order.
WorkspacesBy(failed) ==
    LET W[k \in 0..Len(monitor.seen)] ==
            IF k = 0 THEN <<>>
            ELSE IF WorkspaceFails(monitor.seen[k]) = failed
            THEN Append(W[k - 1], k) ELSE W[k - 1]
    IN  W[Len(monitor.seen)]

InsightsOf(deals) ==
    SeqSum([i \in 1..Len(deals) |->
              IF deals[i].detect = "some" THEN Len(deals[i].insights) ELSE 0])

CriticalOf(deals) ==
    SeqSum([i \in 1..Len(deals) |->
              IF deals[i].detect = "some" THEN CountCritical(deals[i].insights) ELSE 0])

\* C29: run_monitoring_cycle isolates failures per workspace.  It never
\* raises; each failing workspace adds one entry to errors and nothing to
\* the counters of deals, insights and alerts; every other workspace is
\* still processed; and when the cycle has returned, workspaces_processed
\* plus the number of per-workspace entries of errors is the number of
\* workspaces fetched.
C29_FailuresAreIsolatedPerWorkspace ==
    LET results == monitor.results
        failed == WorkspacesBy(TRUE)
        succeeded == WorkspacesBy(FALSE)
        perWorkspace == SelectSeq(results.errors, LAMBDA e : e.kind = "workspace")
    IN  /\ monitor.pc \in {"cycle", "processing", "sleeping"}
        /\ perWorkspace = [i \in 1..Len(failed) |-> WorkspaceError(monitor.workspaces[failed[i]])]
        /\ results.workspaces_processed = Len(succeeded)
        /\ results.deals_analyzed
             = SeqSum([i \in 1..Len(succeeded) |-> Len(monitor.seen[succeeded[i]])])
        /\ results.insights_generated
             = SeqSum([i \in 1..Len(succeeded) |-> InsightsOf(monitor.seen[succeeded[i]])])
        /\ results.critical_alerts
             = SeqSum([i \in 1..Len(succeeded) |-> CriticalOf(monitor.seen[succeeded[i]])])
        /\ monitor.pc \in {"cycle", "sleeping"} =>
               /\ Len(monitor.seen) = Len(monitor.workspaces)
               /\ results.workspaces_processed + Len(perWorkspace) = Len(monitor.workspaces)

\* A cycle that has returned after a workspace that failed and a later
\* workspace whose deals were analysed.
C29_Witness ==
    /\ monitor.pc = "sleeping"
    /\ Len(monitor.seen) >= 2
    /\ WorkspaceFails(monitor.seen[1])
    /\ ~WorkspaceFails(monitor.seen[2])
    /\ monitor.results.deals_analyzed > 0
    /\ Len(monitor.results.errors) = 1
====
